---- MODULE Spec2Model ----
(***************************************************************************)
(* Model of the host-side hardware simulation layer (Arduino stubs, the   *)
(* HTTP client mocks, the SPIFFS file mock) and of the minimal test       *)
(* registry and runner of gtest.h.                                        *)
(*                                                                         *)
(* std::string values are sequences of one-character strings.             *)
(* unsigned long values are four 16-bit limbs, least significant first.   *)
(***************************************************************************)
EXTENDS Integers, Sequences, FiniteSets, TLC

\* ---------------------------------------------------------------- bounds
MaxCalls == 4        \* calls made on the Arduino stubs per behaviour
MaxTime == 2         \* steady_clock ticks that pass per behaviour
MaxHttpCalls == 4    \* calls made on the HTTP clients per behaviour
MaxCount == 12       \* cap of the static counter of File::available
MaxHandles == 2      \* File handles opened per behaviour
MaxTests == 3        \* tests registered per behaviour
MaxRuns == 2         \* calls of RUN_ALL_TESTS per behaviour
MaxModelCalls == 4   \* calls per behaviour when every model is exercised
MaxResets == 1       \* resets made while the file stream is followed
MaxStrLen == 3       \* length of the content of a String

\* ---------------------------------------------------------------- inputs
Pins == {2, 13}
Levels == {0, 1}
Modes == {1}
DelayArgs == {-1, 250}
Bauds == {9600, 115200}
Texts == {<<>>, <<"o", "k">>}
IntArgs == {-7, 42}
NotFound == <<"n", "o", "t", " ", "f", "o", "u", "n", "d">>
Codes == {404, 500}
\* response bodies: std::string values, one of them with an embedded NUL
Bodies == {NotFound, <<"o", "k">>, <<"o", "k", "NUL", "x">>}
Urls == {<<"u">>, <<"v">>}
Timeouts == {5000}
\* the HTTPClient of Arduino_stubs.cpp, the HTTPClient of HTTPClient.cpp,
\* and the MockHTTPClient
Clients == {"stub", "static", "mock"}
Paths == {<<"/", "a">>}
FileModes == {<<"r">>}
Terminators == {"a", "\n"}
\* return count++ < 10
StreamLength == 10
TestNames == {"Suite.a", "Suite.b"}
\* TEST(suite, name) and TEST_F(fixture, name)
TestKinds == {"TEST", "TEST_F"}
\* what a test body does: return normally, fail an ASSERT_*/EXPECT_*,
\* throw a std::exception, throw anything else, register a test
BodyKinds == {"return", "assert", "throw_exception", "throw_other", "register"}
\* the characters of a std::string, and those of a C string
Chars == {"a", "b", "NUL"}
CChars == {"a", "b"}
\* the std::string contents of length at most n over the characters cs
StringsOver(cs, n) == UNION {[1..k -> cs] : k \in 0..n}
Contents == StringsOver(Chars, MaxStrLen)
\* needles: a const char*, a char, a String
CNeedles == StringsOver(CChars, 2)
StringNeedles == StringsOver(Chars, 2)
\* int arguments of substring and indexOf: negative, inside, beyond the end
Indexes == (0 - 2)..(MaxStrLen + 1)
\* steady_clock ticks per millisecond (duration_cast truncates to ms)
TicksPerMs == 2

VARIABLES
    pin_states,                 \* static std::map<int,int>
    start_time,                 \* static steady_clock::time_point
    mock_digitalWrite_calls,    \* std::vector<DigitalWriteCall>
    mock_delay_calls,           \* std::vector<DelayCall>
    println_calls,              \* SerialClass members
    print_calls,
    outputBuffer,
    begin_baud,
    begin_call_count,
    println_call_count,
    print_call_count,
    last_baud_rate,
    now,                        \* steady_clock::now()
    calls,                      \* number of calls made so far
    last,                       \* the last call: operation, arguments, result
    writes_since_reset,         \* history: digitalWrite calls since the last reset
    delays_since_reset,         \* history: delay arguments since the last reset
    console_since_reset,        \* history: print/println calls since the last reset
    GET_return,                 \* HTTPClient members (Arduino_stubs.cpp)
    getString_return,
    http_begin_call_count,
    begin_url,
    HTTPClient_mock_response_code,  \* HTTPClient statics (HTTPClient.cpp)
    HTTPClient_mock_response_body,
    last_url,
    mock_response_code,         \* MockHTTPClient members
    mock_response_body,
    configured,                 \* history: the response last configured, per client
    count,                      \* static int count of File::available
    handles,                    \* history: the File handles returned by SPIFFS.open
    tests_,                     \* TestRegistry::tests_
    NDEBUG,                     \* whether the build defines NDEBUG
    pc,                         \* where the process is
    idx,                        \* run_all_tests: position of the range-for in tests_
    end_,                       \* run_all_tests: the end() the range-for holds
    failures,                   \* run_all_tests: int failures
    returned,                   \* the values the calls of run_all_tests returned
    report,                     \* the [ PASS ] / [ FAIL ] lines written to std::cout
    cout_failed,                \* std::cout is in a failed state: it writes nothing
    events,                     \* history: the functions entered, per test
    run_start                   \* history: the lengths of events and report
                                \* when the current run was entered

arduinoVars == <<pin_states, start_time, mock_digitalWrite_calls, mock_delay_calls>>
serialVars == <<println_calls, print_calls, outputBuffer, begin_baud,
                begin_call_count, println_call_count, print_call_count,
                last_baud_rate>>
histVars == <<writes_since_reset, delays_since_reset, console_since_reset>>

stubVars == <<arduinoVars, serialVars, now, histVars>>
httpVars == <<GET_return, getString_return, http_begin_call_count, begin_url,
              HTTPClient_mock_response_code, HTTPClient_mock_response_body,
              last_url, mock_response_code, mock_response_body, configured>>
fileVars == <<count, handles>>
runnerVars == <<tests_, NDEBUG, pc, idx, end_, failures, returned, report,
                cout_failed, events, run_start>>

vars == <<stubVars, httpVars, fileVars, runnerVars, calls, last>>

\* ------------------------------------------------------- pure functions

\* std::to_string(int): decimal rendering, '-' first for a negative value
RECURSIVE Digits(_)
Digits(n) ==
    IF n < 10 THEN <<CHOOSE d \in {"0","1","2","3","4","5","6","7","8","9"} :
                       d = ToString(n)>>
    ELSE Digits(n \div 10) \o Digits(n % 10)

to_string(val) == IF val < 0 THEN <<"-">> \o Digits(0 - val) ELSE Digits(val)

\* the limbs of a non-negative int (it has at most 31 significant bits)
NatLimbs(n) == <<n % 65536, (n \div 65536) % 65536, 0, 0>>

\* a slip: (unsigned int)ms, widened with zeros
CastULong_uint(ms) ==
    IF ms >= 0 THEN NatLimbs(ms)
    ELSE <<65535 - NatLimbs((0 - ms) - 1)[1],
           65535 - NatLimbs((0 - ms) - 1)[2], 0, 0>>

\* (unsigned long)ms for an int ms: value-preserving for ms >= 0, and
\* 2^64 + ms for ms < 0 (the complement of the limbs of -ms - 1)
CastULong(ms) ==
    IF ms >= 0 THEN NatLimbs(ms)
    ELSE [i \in 1..4 |-> 65535 - NatLimbs((0 - ms) - 1)[i]]

\* the terminating character of a C string
NUL == "NUL"

\* std::string::c_str() read back as a C string: the characters before the
\* first NUL
RECURSIVE c_str(_)
c_str(s) ==
    IF s = <<>> THEN <<>>
    ELSE IF Head(s) = NUL THEN <<>>
    ELSE <<Head(s)>> \o c_str(Tail(s))

\* ------------------------------------------------------------ Init

SerialInit ==
    /\ println_calls = <<>>
    /\ print_calls = <<>>
    /\ outputBuffer = <<>>
    /\ begin_baud = 0
    /\ begin_call_count = 0
    /\ println_call_count = 0
    /\ print_call_count = 0
    /\ last_baud_rate = 0

ArduinoInit ==
    /\ pin_states = <<>>
    /\ start_time = 0
    /\ now = 0
    /\ mock_digitalWrite_calls = <<>>
    /\ mock_delay_calls = <<>>

\* HTTPClient.cpp:3-5 and MockHTTPClient's member initialisers: 200 and "";
\* the members of the HTTPClient of Arduino_stubs.cpp start with the same
\* defaults, the ones its reset() restores
HttpInit ==
    /\ GET_return = 200
    /\ getString_return = <<>>
    /\ http_begin_call_count = 0
    /\ begin_url = <<>>
    /\ HTTPClient_mock_response_code = 200
    /\ HTTPClient_mock_response_body = <<>>
    /\ last_url = <<>>
    /\ mock_response_code = 200
    /\ mock_response_body = <<>>
    /\ configured = [c \in Clients |-> [code |-> 200, body |-> <<>>]]

FileInit ==
    /\ count = 0
    /\ handles = <<>>

\* TestRegistry::instance(): the catalog is empty before the static
\* registrars run; the build defines NDEBUG or not
RunnerInit ==
    /\ tests_ = <<>>
    /\ pc = "static_init"
    /\ idx = 0
    /\ end_ = 0
    /\ failures = 0
    /\ returned = <<>>
    /\ report = <<>>
    /\ cout_failed = FALSE
    /\ events = <<>>
    /\ run_start = [events |-> 0, report |-> 0]

NoCall == [op |-> "none", args |-> <<>>, ret |-> <<>>, resets |-> {}]

\* the reset operations of the models
ResetOps == {"reset_arduino_stubs", "HTTPClient.reset"}

ProcessStart ==
    /\ ArduinoInit
    /\ SerialInit
    /\ HttpInit
    /\ FileInit
    /\ RunnerInit
    /\ NDEBUG \in BOOLEAN
    /\ calls = 0
    /\ last = NoCall
    /\ writes_since_reset = <<>>
    /\ delays_since_reset = <<>>
    /\ console_since_reset = <<>>

\* the hardware models never read NDEBUG: a build without it
Init == ProcessStart /\ ~NDEBUG

\* the runner, in a build with or without NDEBUG
InitRunner == ProcessStart

\* one more call is made: the record of the call, and of the resets
\* invoked with no other call since
Called(op, args, ret) ==
    /\ calls' = calls + 1
    /\ last' = [op |-> op, args |-> args, ret |-> ret,
                resets |-> IF op \in ResetOps THEN last.resets \cup {op} ELSE {}]

\* ------------------------------------------------------ Arduino stubs

\* void SerialClass::reset()
SerialReset ==
    /\ println_calls' = <<>>
    /\ print_calls' = <<>>
    /\ outputBuffer' = <<>>
    /\ begin_baud' = 0
    /\ begin_call_count' = 0
    /\ println_call_count' = 0
    /\ print_call_count' = 0
    /\ last_baud_rate' = 0

\* Serial.reset() called on its own
Serial_reset ==
    /\ Called("Serial.reset", <<>>, <<>>)
    /\ SerialReset
    /\ console_since_reset' = <<>>
    /\ UNCHANGED <<arduinoVars, now, writes_since_reset, delays_since_reset>>

\* a slip: the write log is cleared and the pin table is kept
reset_arduino_stubs_keep_pins ==
    /\ Called("reset_arduino_stubs", <<>>, <<>>)
    /\ mock_digitalWrite_calls' = <<>>
    /\ mock_delay_calls' = <<>>
    /\ SerialReset
    /\ start_time' = now
    /\ writes_since_reset' = <<>>
    /\ delays_since_reset' = <<>>
    /\ console_since_reset' = <<>>
    /\ UNCHANGED <<now, pin_states>>

\* void reset_arduino_stubs()
reset_arduino_stubs ==
    /\ Called("reset_arduino_stubs", <<>>, <<>>)
    /\ mock_digitalWrite_calls' = <<>>
    /\ mock_delay_calls' = <<>>
    /\ pin_states' = <<>>
    /\ SerialReset
    /\ start_time' = now
    /\ writes_since_reset' = <<>>
    /\ delays_since_reset' = <<>>
    /\ console_since_reset' = <<>>
    /\ UNCHANGED now

\* a slip: pin_states.insert({pin, value}), which keeps an existing entry
PinStore_insert(pin, value) ==
    [p \in (DOMAIN pin_states) \cup {pin} |->
        IF p \in DOMAIN pin_states THEN pin_states[p] ELSE value]

\* pin_states[pin] = value
PinStore(pin, value) ==
    [p \in (DOMAIN pin_states) \cup {pin} |->
        IF p = pin THEN value ELSE pin_states[p]]

\* a slip: a write that repeats the last logged one is not logged
WriteLogged_dedup(pin, value) ==
    IF /\ mock_digitalWrite_calls # <<>>
       /\ mock_digitalWrite_calls[Len(mock_digitalWrite_calls)] =
              [pin |-> pin, value |-> value]
    THEN mock_digitalWrite_calls
    ELSE Append(mock_digitalWrite_calls, [pin |-> pin, value |-> value])

\* mock_digitalWrite_calls.push_back({pin, value})
WriteLogged(pin, value) ==
    Append(mock_digitalWrite_calls, [pin |-> pin, value |-> value])

\* void digitalWrite(int pin, int value)
digitalWrite(pin, value) ==
    /\ Called("digitalWrite", <<pin, value>>, <<>>)
    /\ mock_digitalWrite_calls' = WriteLogged(pin, value)
    /\ pin_states' = PinStore(pin, value)
    /\ writes_since_reset' = Append(writes_since_reset, <<pin, value>>)
    /\ UNCHANGED <<start_time, mock_delay_calls, serialVars, now,
                   delays_since_reset, console_since_reset>>

\* std::map::operator[] of a key: the mapped value, 0 for an absent key
PinLookup(pin) == IF pin \in DOMAIN pin_states THEN pin_states[pin] ELSE 0

\* std::map::operator[] inserts a value-initialised entry for an absent key
PinTouch(pin) ==
    [p \in (DOMAIN pin_states) \cup {pin} |->
        IF p \in DOMAIN pin_states THEN pin_states[p] ELSE 0]

\* int digitalRead(int pin)
digitalRead(pin) ==
    /\ Called("digitalRead", <<pin>>, <<PinLookup(pin)>>)
    /\ pin_states' = PinTouch(pin)
    /\ UNCHANGED <<start_time, mock_digitalWrite_calls, mock_delay_calls,
                   serialVars, now, histVars>>

\* void pinMode(int pin, int mode)
pinMode(pin, mode) ==
    /\ Called("pinMode", <<pin, mode>>, <<>>)
    /\ UNCHANGED <<arduinoVars, serialVars, now, histVars>>

\* mock_delay_calls.push_back({(unsigned long)ms})
DelayLogged(ms) == Append(mock_delay_calls, [ms |-> CastULong(ms)])

\* void delay(int ms)
delay(ms) ==
    /\ Called("delay", <<ms>>, <<>>)
    /\ mock_delay_calls' = DelayLogged(ms)
    /\ delays_since_reset' = Append(delays_since_reset, ms)
    /\ UNCHANGED <<pin_states, start_time, mock_digitalWrite_calls,
                   serialVars, now, writes_since_reset, console_since_reset>>

\* a slip: the time since the epoch of the clock, not since start_time
MillisValue_epoch == now \div TicksPerMs

\* the value millis() returns
MillisValue == (now - start_time) \div TicksPerMs

\* unsigned long millis()
millis ==
    /\ Called("millis", <<>>, <<MillisValue>>)
    /\ UNCHANGED <<arduinoVars, serialVars, now, histVars>>

\* the steady clock advances between two calls
Tick ==
    /\ now < MaxTime
    /\ now' = now + 1
    /\ UNCHANGED <<arduinoVars, serialVars, histVars>>

\* ------------------------------------------------------------ console

\* void SerialClass::begin(int baud)
Serial_begin(baud) ==
    /\ Called("Serial.begin", <<baud>>, <<>>)
    /\ begin_baud' = baud
    /\ last_baud_rate' = baud
    /\ begin_call_count' = begin_call_count + 1
    /\ UNCHANGED <<arduinoVars, println_calls, print_calls, outputBuffer,
                   println_call_count, print_call_count, now, histVars>>

\* void SerialClass::print(const char* str)
Serial_print_cstr(str) ==
    /\ Called("Serial.print", <<"cstr", str>>, <<>>)
    /\ print_calls' = Append(print_calls, str)
    /\ outputBuffer' = outputBuffer \o str
    /\ print_call_count' = print_call_count + 1
    /\ console_since_reset' = Append(console_since_reset, <<"print", str>>)
    /\ UNCHANGED <<arduinoVars, println_calls, begin_baud, begin_call_count,
                   println_call_count, last_baud_rate, now,
                   writes_since_reset, delays_since_reset>>

\* void SerialClass::println(const char* str)
Serial_println_cstr(str) ==
    /\ Called("Serial.println", <<"cstr", str>>, <<>>)
    /\ println_calls' = Append(println_calls, str)
    /\ outputBuffer' = (outputBuffer \o str) \o <<"\n">>
    /\ println_call_count' = println_call_count + 1
    /\ console_since_reset' = Append(console_since_reset, <<"println", str>>)
    /\ UNCHANGED <<arduinoVars, print_calls, begin_baud, begin_call_count,
                   print_call_count, last_baud_rate, now,
                   writes_since_reset, delays_since_reset>>

\* void SerialClass::print(int val)
Serial_print_int(val) ==
    /\ Called("Serial.print", <<"int", val>>, <<>>)
    /\ print_calls' = Append(print_calls, to_string(val))
    /\ console_since_reset' =
           Append(console_since_reset, <<"print", to_string(val)>>)
    /\ UNCHANGED <<arduinoVars, println_calls, outputBuffer, begin_baud,
                   begin_call_count, println_call_count, print_call_count,
                   last_baud_rate, now, writes_since_reset, delays_since_reset>>

\* void SerialClass::println(int val)
Serial_println_int(val) ==
    /\ Called("Serial.println", <<"int", val>>, <<>>)
    /\ println_calls' = Append(println_calls, to_string(val))
    /\ console_since_reset' =
           Append(console_since_reset, <<"println", to_string(val)>>)
    /\ UNCHANGED <<arduinoVars, print_calls, outputBuffer, begin_baud,
                   begin_call_count, println_call_count, print_call_count,
                   last_baud_rate, now, writes_since_reset, delays_since_reset>>

\* void SerialClass::print(const String& str)
Serial_print_String(str) ==
    /\ Called("Serial.print", <<"String", str>>, <<>>)
    /\ print_calls' = Append(print_calls, str)
    /\ outputBuffer' = outputBuffer \o str
    /\ print_call_count' = print_call_count + 1
    /\ console_since_reset' = Append(console_since_reset, <<"print", str>>)
    /\ UNCHANGED <<arduinoVars, println_calls, begin_baud, begin_call_count,
                   println_call_count, last_baud_rate, now,
                   writes_since_reset, delays_since_reset>>

\* void SerialClass::println(const String& str)
Serial_println_String(str) ==
    /\ Called("Serial.println", <<"String", str>>, <<>>)
    /\ println_calls' = Append(println_calls, str)
    /\ outputBuffer' = (outputBuffer \o str) \o <<"\n">>
    /\ println_call_count' = println_call_count + 1
    /\ console_since_reset' = Append(console_since_reset, <<"println", str>>)
    /\ UNCHANGED <<arduinoVars, print_calls, begin_baud, begin_call_count,
                   print_call_count, last_baud_rate, now,
                   writes_since_reset, delays_since_reset>>

\* ------------------------------------------------------- HTTP clients

\* the response a test configures on client c
Configure(c, code, body) ==
    configured' = [configured EXCEPT ![c] = [code |-> code, body |-> body]]

\* test-side configuration: http.GET_return = code
Set_GET_return(code) ==
    /\ Called("set GET_return", <<code>>, <<>>)
    /\ GET_return' = code
    /\ Configure("stub", code, configured["stub"].body)
    /\ UNCHANGED <<getString_return, http_begin_call_count, begin_url,
                   HTTPClient_mock_response_code, HTTPClient_mock_response_body,
                   last_url, mock_response_code, mock_response_body>>

\* test-side configuration: http.getString_return = body
Set_getString_return(body) ==
    /\ Called("set getString_return", <<body>>, <<>>)
    /\ getString_return' = body
    /\ Configure("stub", configured["stub"].code, body)
    /\ UNCHANGED <<GET_return, http_begin_call_count, begin_url,
                   HTTPClient_mock_response_code, HTTPClient_mock_response_body,
                   last_url, mock_response_code, mock_response_body>>

\* void HTTPClient::setTimeout(int ms)            (Arduino_stubs.cpp)
HTTPClient_setTimeout(ms) ==
    /\ Called("HTTPClient.setTimeout", <<ms>>, <<>>)
    /\ UNCHANGED httpVars

\* a slip: a begin of the url already recorded is not counted
HTTPClient_begin_once(url) ==
    /\ Called("HTTPClient.begin", <<url>>, <<>>)
    /\ http_begin_call_count' =
           IF begin_url = url THEN http_begin_call_count
           ELSE http_begin_call_count + 1
    /\ begin_url' = url
    /\ UNCHANGED <<GET_return, getString_return,
                   HTTPClient_mock_response_code, HTTPClient_mock_response_body,
                   last_url, mock_response_code, mock_response_body, configured>>

\* void HTTPClient::begin(const String& url)      (Arduino_stubs.cpp)
HTTPClient_begin(url) ==
    /\ Called("HTTPClient.begin", <<url>>, <<>>)
    /\ http_begin_call_count' = http_begin_call_count + 1
    /\ begin_url' = url
    /\ UNCHANGED <<GET_return, getString_return,
                   HTTPClient_mock_response_code, HTTPClient_mock_response_body,
                   last_url, mock_response_code, mock_response_body, configured>>

\* #define HTTP_CODE_OK 200
HTTP_CODE_OK == 200

\* a slip: return HTTP_CODE_OK
GET_value_ok == HTTP_CODE_OK

\* return GET_return
GET_value == GET_return

\* int HTTPClient::GET()                          (Arduino_stubs.cpp)
HTTPClient_GET ==
    /\ Called("HTTPClient.GET", <<>>, <<GET_value>>)
    /\ UNCHANGED httpVars

\* return String(getString_return.c_str())
\* a slip: return String(getString_return), the whole std::string
getString_value_whole == getString_return

\* the value HTTPClient::getString() returns
getString_value == c_str(getString_return)

\* String HTTPClient::getString()                 (Arduino_stubs.cpp)
HTTPClient_getString ==
    /\ Called("HTTPClient.getString", <<>>, <<getString_value>>)
    /\ UNCHANGED httpVars

\* void HTTPClient::end()                         (Arduino_stubs.cpp)
HTTPClient_end ==
    /\ Called("HTTPClient.end", <<>>, <<>>)
    /\ UNCHANGED httpVars

\* void HTTPClient::reset()                       (Arduino_stubs.cpp)
HTTPClient_reset ==
    /\ Called("HTTPClient.reset", <<>>, <<>>)
    /\ http_begin_call_count' = 0
    /\ begin_url' = <<>>
    /\ GET_return' = 200
    /\ getString_return' = <<>>
    /\ Configure("stub", 200, <<>>)
    /\ UNCHANGED <<HTTPClient_mock_response_code, HTTPClient_mock_response_body,
                   last_url, mock_response_code, mock_response_body>>

\* test-side configuration: HTTPClient::mock_response_code = code
Set_HTTPClient_mock_response_code(code) ==
    /\ Called("set HTTPClient::mock_response_code", <<code>>, <<>>)
    /\ HTTPClient_mock_response_code' = code
    /\ Configure("static", code, configured["static"].body)
    /\ UNCHANGED <<GET_return, getString_return, http_begin_call_count,
                   begin_url, HTTPClient_mock_response_body, last_url,
                   mock_response_code, mock_response_body>>

\* test-side configuration: HTTPClient::mock_response_body = body
Set_HTTPClient_mock_response_body(body) ==
    /\ Called("set HTTPClient::mock_response_body", <<body>>, <<>>)
    /\ HTTPClient_mock_response_body' = body
    /\ Configure("static", configured["static"].code, body)
    /\ UNCHANGED <<GET_return, getString_return, http_begin_call_count,
                   begin_url, HTTPClient_mock_response_code, last_url,
                   mock_response_code, mock_response_body>>

\* void HTTPClient::setTimeout(int ms)            (HTTPClient.cpp)
HTTPClientCpp_setTimeout(ms) ==
    /\ Called("HTTPClient.cpp setTimeout", <<ms>>, <<>>)
    /\ UNCHANGED httpVars

\* void HTTPClient::begin(String url)             (HTTPClient.cpp)
HTTPClientCpp_begin(url) ==
    /\ Called("HTTPClient.cpp begin", <<url>>, <<>>)
    /\ last_url' = url
    /\ UNCHANGED <<GET_return, getString_return, http_begin_call_count,
                   begin_url, HTTPClient_mock_response_code,
                   HTTPClient_mock_response_body, mock_response_code,
                   mock_response_body, configured>>

\* int HTTPClient::GET()                          (HTTPClient.cpp)
HTTPClientCpp_GET ==
    /\ Called("HTTPClient.cpp GET", <<>>, <<HTTPClient_mock_response_code>>)
    /\ UNCHANGED httpVars

\* String HTTPClient::getString()                 (HTTPClient.cpp)
HTTPClientCpp_getString ==
    /\ Called("HTTPClient.cpp getString", <<>>, <<HTTPClient_mock_response_body>>)
    /\ UNCHANGED httpVars

\* void HTTPClient::end()                         (HTTPClient.cpp)
HTTPClientCpp_end ==
    /\ Called("HTTPClient.cpp end", <<>>, <<>>)
    /\ UNCHANGED httpVars

\* void MockHTTPClient::setResponseCode(int code)
MockHTTPClient_setResponseCode(code) ==
    /\ Called("MockHTTPClient.setResponseCode", <<code>>, <<>>)
    /\ mock_response_code' = code
    /\ Configure("mock", code, configured["mock"].body)
    /\ UNCHANGED <<GET_return, getString_return, http_begin_call_count,
                   begin_url, HTTPClient_mock_response_code,
                   HTTPClient_mock_response_body, last_url, mock_response_body>>

\* void MockHTTPClient::setResponseString(String str)
MockHTTPClient_setResponseString(str) ==
    /\ Called("MockHTTPClient.setResponseString", <<str>>, <<>>)
    /\ mock_response_body' = str
    /\ Configure("mock", configured["mock"].code, str)
    /\ UNCHANGED <<GET_return, getString_return, http_begin_call_count,
                   begin_url, HTTPClient_mock_response_code,
                   HTTPClient_mock_response_body, last_url, mock_response_code>>

\* int MockHTTPClient::GET()
MockHTTPClient_GET ==
    /\ Called("MockHTTPClient.GET", <<>>, <<mock_response_code>>)
    /\ UNCHANGED httpVars

\* String MockHTTPClient::getString()
MockHTTPClient_getString ==
    /\ Called("MockHTTPClient.getString", <<>>, <<mock_response_body>>)
    /\ UNCHANGED httpVars

\* void MockHTTPClient::begin(String url)
MockHTTPClient_begin(url) ==
    /\ Called("MockHTTPClient.begin", <<url>>, <<>>)
    /\ UNCHANGED httpVars

\* void MockHTTPClient::setTimeout(int timeout)
MockHTTPClient_setTimeout(timeout) ==
    /\ Called("MockHTTPClient.setTimeout", <<timeout>>, <<>>)
    /\ UNCHANGED httpVars

\* void MockHTTPClient::end()
MockHTTPClient_end ==
    /\ Called("MockHTTPClient.end", <<>>, <<>>)
    /\ UNCHANGED httpVars

\* --------------------------------------------------------- filesystem

\* a call on the filesystem mock: the record of the call
FileCalled(op, args, ret) ==
    /\ last' = [op |-> op, args |-> args, ret |-> ret, resets |-> {}]
    /\ UNCHANGED calls

\* bool SPIFFSClass::begin(bool format)
SPIFFS_begin_format(format) ==
    /\ FileCalled("SPIFFS.begin", <<format>>, <<TRUE>>)
    /\ UNCHANGED fileVars

\* bool SPIFFSClass::begin()
SPIFFS_begin ==
    /\ FileCalled("SPIFFS.begin", <<>>, <<TRUE>>)
    /\ UNCHANGED fileVars

\* a slip: every open starts the stream again
SPIFFS_open_rewind(path, mode) ==
    /\ Len(handles) < MaxHandles
    /\ FileCalled("SPIFFS.open", <<path, mode>>, <<Len(handles) + 1>>)
    /\ handles' = Append(handles, [path |-> path, mode |-> mode, obs |-> <<>>])
    /\ count' = 0

\* File SPIFFSClass::open(const char* path, const char* mode)
SPIFFS_open(path, mode) ==
    /\ Len(handles) < MaxHandles
    /\ FileCalled("SPIFFS.open", <<path, mode>>, <<Len(handles) + 1>>)
    /\ handles' = Append(handles, [path |-> path, mode |-> mode, obs |-> <<>>])
    /\ UNCHANGED count

\* a slip: count++ <= 10
AvailableValue_le(c) == c <= StreamLength

\* the value File::available() returns with the counter at c
AvailableValue(c) == c < StreamLength

\* handle h has observed the results obs of available()
Observed(h, obs) == [handles EXCEPT ![h].obs = @ \o obs]

\* bool File::available()
File_available(h) ==
    /\ FileCalled("File.available", <<h>>, <<AvailableValue(count)>>)
    /\ count' = count + 1
    /\ handles' = Observed(h, <<AvailableValue(count)>>)

\* char File::read()
File_read(h) ==
    /\ FileCalled("File.read", <<h>>, <<"a">>)
    /\ UNCHANGED fileVars

\* void File::close()
File_close(h) ==
    /\ FileCalled("File.close", <<h>>, <<>>)
    /\ UNCHANGED fileVars

\* File::operator bool() const
File_bool(h) ==
    /\ FileCalled("File.bool", <<h>>, <<TRUE>>)
    /\ UNCHANGED fileVars

\* the loop of File::readStringUntil started with the counter at c: the
\* text accumulated, the counter afterwards, the results of available()
RECURSIVE ReadLoop(_, _)
ReadLoop(c, terminator) ==
    IF ~AvailableValue(c)
    THEN [result |-> <<>>, count |-> c + 1, obs |-> <<FALSE>>]
    ELSE IF "a" = terminator
    THEN [result |-> <<>>, count |-> c + 1, obs |-> <<TRUE>>]
    ELSE LET rest == ReadLoop(c + 1, terminator)
         IN [result |-> <<"a">> \o rest.result,
             count |-> rest.count,
             obs |-> <<TRUE>> \o rest.obs]

\* String File::readStringUntil(char terminator)
File_readStringUntil(h, terminator) ==
    LET r == ReadLoop(count, terminator) IN
    /\ FileCalled("File.readStringUntil", <<h, terminator>>, <<c_str(r.result)>>)
    /\ count' = r.count
    /\ handles' = Observed(h, r.obs)

\* size_t File::print(const String& str)
File_print(h, str) ==
    /\ FileCalled("File.print", <<h, str>>, <<Len(str)>>)
    /\ UNCHANGED fileVars

\* ------------------------------------------------ registry and runner

\* main, or the static initialisation before it, is running: no call of
\* run_all_tests is active
InMain == pc \in {"static_init", "returned"}

\* tests_.push_back({name, func})
Registered(name, kind, body) ==
    Append(tests_, [name |-> name, kind |-> kind, body |-> body])

\* void TestRegistry::register_test(name, func), called by the constructor
\* of the static Registrar_* object that TEST / TEST_F defines, or by main
register_test(name, kind, body) ==
    /\ InMain
    /\ Len(tests_) < MaxTests
    /\ tests_' = Registered(name, kind, body)
    /\ UNCHANGED <<NDEBUG, pc, idx, end_, failures, returned, report,
                   cout_failed, events, run_start>>

\* int RUN_ALL_TESTS(): run_all_tests() is entered, int failures = 0, and
\* the range-for takes begin() and end() of tests_
RUN_ALL_TESTS ==
    /\ InMain
    /\ Len(returned) < MaxRuns
    /\ pc' = "loop"
    /\ idx' = 1
    /\ end_' = Len(tests_)
    /\ failures' = 0
    /\ run_start' = [events |-> Len(events), report |-> Len(report)]
    /\ UNCHANGED <<tests_, NDEBUG, returned, report, cout_failed, events>>

\* the process is terminated: abort() of a failed assert(), or a crash
Terminated ==
    /\ pc' = "aborted"
    /\ UNCHANGED <<idx, failures, returned, report, cout_failed>>

\* a body of the current run has called register_test: the iterator and
\* the end() of the range-for are invalidated, and `test` refers to an
\* element that the vector may have moved from and freed
Dangling == ~InMain /\ Len(tests_) > end_

\* the name of an element the vector has moved from, and any other bytes
MovedFrom == ""
Garbage == "garbage"

\* what test.name yields: the name registered, or, read through a
\* dangling reference, also the empty name of a moved-from element or
\* whatever the freed block holds
NameRead(dangling) ==
    IF dangling THEN {tests_[idx].name, MovedFrom, Garbage}
    ELSE {tests_[idx].name}

\* std::cout << ... << test.name << ... << std::endl: the line is
\* written with the name read; a stream that has failed writes nothing.
\* Writing a name read through a dangling reference can leave the stream
\* failed, and then this line is not written either
Written(verdict, dangling, rest) ==
    \/ /\ ~cout_failed
       /\ \E name \in NameRead(dangling) :
              report' = Append(report, <<verdict, name>> \o rest)
       /\ UNCHANGED cout_failed
    \/ /\ cout_failed
       /\ UNCHANGED <<report, cout_failed>>
    \/ /\ dangling /\ ~cout_failed
       /\ cout_failed' = TRUE
       /\ UNCHANGED report

\* test.func() returned: the [ PASS ] line, then the next test. Reading
\* test.name through a dangling reference can also crash
FuncReturned(dangling) ==
    \/ /\ Written("PASS", dangling, <<>>)
       /\ idx' = idx + 1
       /\ pc' = "loop"
       /\ UNCHANGED <<failures, returned>>
    \/ dangling /\ Terminated

\* test.func() threw: the catch clause's [ FAIL ] line, failures++
FuncThrew(dangling, what) ==
    \/ /\ Written("FAIL", dangling, <<what>>)
       /\ failures' = failures + 1
       /\ idx' = idx + 1
       /\ pc' = "loop"
       /\ UNCHANGED returned
    \/ dangling /\ Terminated

\* run_all_tests: the range-for over tests_ calls test.func(), or ends
\* and failures is returned. A dangling test.func is the function
\* registered, or an empty std::function whose call throws
\* std::bad_function_call, or the call crashes
RunLoop ==
    /\ pc = "loop"
    /\ IF idx > end_
       THEN /\ pc' = "returned"
            /\ returned' = Append(returned, failures)
            /\ UNCHANGED <<idx, failures, report, cout_failed>>
       ELSE \/ /\ pc' = IF tests_[idx].kind = "TEST_F" THEN "SetUp" ELSE "TestBody"
               /\ UNCHANGED <<idx, failures, returned, report, cout_failed>>
            \/ Dangling /\ FuncThrew(TRUE, "e.what()")
            \/ Dangling /\ Terminated
    /\ UNCHANGED <<tests_, NDEBUG, end_, events, run_start>>

\* TestFunc_*: test.SetUp()
SetUp ==
    /\ pc = "SetUp"
    /\ events' = Append(events, <<idx, "SetUp">>)
    /\ pc' = "TestBody"
    /\ UNCHANGED <<tests_, NDEBUG, idx, end_, failures, returned, report,
                   cout_failed, run_start>>

\* the body returned: TestFunc_* goes on to test.TearDown(), Test_* returns
BodyReturned(dangling) ==
    IF tests_[idx].kind = "TEST_F"
    THEN /\ pc' = "TearDown"
         /\ UNCHANGED <<idx, failures, returned, report, cout_failed>>
    ELSE FuncReturned(dangling)

\* the body calls register_test while run_all_tests iterates tests_: the
\* push_back invalidates the end() the range-for holds and, when the
\* vector reallocates, every iterator and reference: undefined behaviour
\* from here to the end of the run. The call itself crashes, or the body
\* returns with `test` dangling
RegisteredWhileRunning ==
    /\ Len(tests_) < MaxTests
    /\ \E name \in TestNames : tests_' = Registered(name, "TEST", "return")
    /\ Terminated \/ BodyReturned(TRUE)

\* the test body runs: Test_*() of TEST, test.TestBody() of TEST_F.
\* ASSERT_* / EXPECT_* are assert(): a false condition calls abort(),
\* and with NDEBUG defined the macro expands to nothing
TestBody ==
    /\ pc = "TestBody"
    /\ events' = Append(events, <<idx, "TestBody">>)
    /\ CASE tests_[idx].body = "return" ->
                BodyReturned(Dangling) /\ UNCHANGED tests_
         [] tests_[idx].body = "assert" ->
                /\ IF NDEBUG THEN BodyReturned(Dangling) ELSE Terminated
                /\ UNCHANGED tests_
         [] tests_[idx].body = "throw_exception" ->
                FuncThrew(Dangling, "e.what()") /\ UNCHANGED tests_
         [] tests_[idx].body = "throw_other" ->
                FuncThrew(Dangling, "Unknown exception") /\ UNCHANGED tests_
         [] tests_[idx].body = "register" -> RegisteredWhileRunning
    /\ UNCHANGED <<NDEBUG, end_, run_start>>

\* TestFunc_*: test.TearDown(), then TestFunc_* returns
TearDown ==
    /\ pc = "TearDown"
    /\ events' = Append(events, <<idx, "TearDown">>)
    /\ FuncReturned(Dangling)
    /\ UNCHANGED <<tests_, NDEBUG, end_, failures, run_start>>

\* ------------------------------------------------------------- String

\* int String::length() const
length(content) == Len(content)

\* a slip: the "to end" marker is not handled, end == -1 stays -1
substring_nomarker(content, start, end) ==
    LET start1 == IF start < 0 THEN 0 ELSE start
        end1 == IF end > length(content) THEN length(content) ELSE end
    IN IF start1 >= end1 THEN <<>>
       ELSE c_str(SubSeq(content, start1 + 1, end1))

\* String String::substring(int start, int end) const
substring(content, start, end) ==
    LET end1 == IF end = 0 - 1 THEN length(content) ELSE end
        start1 == IF start < 0 THEN 0 ELSE start
        end2 == IF end1 > length(content) THEN length(content) ELSE end1
    IN IF start1 >= end2 THEN c_str(<<>>)
       ELSE c_str(SubSeq(content, start1 + 1, end2))

\* String::substring called on a String with the given content
String_substring(content, start, end) ==
    Called("String.substring", <<content, start, end>>,
                 <<substring(content, start, end)>>)

\* the size_t pos (an int converted to unsigned long) is at most n
PosAtMost(pos, n) ==
    /\ pos[3] = 0 /\ pos[4] = 0 /\ pos[2] < 32768
    /\ pos[1] + 65536 * pos[2] <= n

\* static const size_t npos = -1, which static_cast<int> turns into -1
npos == 0 - 1

\* std::string::find(needle, pos): the lowest position p >= pos at which
\* needle starts within content, npos if there is none
find(content, needle, pos) ==
    LET found == {p \in 0..(Len(content) - Len(needle)) :
                     /\ PosAtMost(pos, p)
                     /\ SubSeq(content, p + 1, p + Len(needle)) = needle}
    IN IF found = {} THEN npos
       ELSE CHOOSE p \in found : \A q \in found : p <= q

\* int String::indexOf(const char* str, int fromIndex) const
String_indexOf_cstr(content, str, fromIndex) ==
    Called("String.indexOf", <<content, c_str(str), fromIndex>>,
                 <<find(content, c_str(str), CastULong(fromIndex))>>)

\* int String::indexOf(char ch, int fromIndex) const
String_indexOf_char(content, ch, fromIndex) ==
    Called("String.indexOf", <<content, <<ch>>, fromIndex>>,
                 <<find(content, <<ch>>, CastULong(fromIndex))>>)

\* int String::indexOf(const String& str, int fromIndex) const
String_indexOf_String(content, str, fromIndex) ==
    Called("String.indexOf", <<content, str, fromIndex>>,
                 <<find(content, str, CastULong(fromIndex))>>)

\* ------------------------------------------------------ specification

\* a call of the Arduino stubs, within a budget of calls
OnStubs(budget, A) ==
    budget /\ A /\ UNCHANGED <<httpVars, fileVars, runnerVars>>

\* a call of an HTTP client, within a budget of calls
OnHttp(budget, A) ==
    budget /\ A /\ UNCHANGED <<stubVars, fileVars, runnerVars>>

\* a call of the filesystem mock, within a budget of calls
OnFile(budget, A) ==
    budget /\ A /\ UNCHANGED <<stubVars, httpVars, runnerVars>>

\* a step of the registration or of the runner
OnRunner(A) ==
    A /\ UNCHANGED <<stubVars, httpVars, fileVars, calls, last>>

\* a call on a String value
OnString(A) ==
    A /\ UNCHANGED <<stubVars, httpVars, fileVars, runnerVars>>

\* resets made while the file stream is followed
ResetBudget == calls < MaxResets

\* the member functions of String modelled are const and keep nothing
\* between calls: every behaviour makes one call
StringBudget == calls = 0

\* time passes
ClockTick == Tick /\ UNCHANGED <<httpVars, fileVars, runnerVars, calls, last>>

\* the budget of calls on the Arduino stubs
StubBudget == calls < MaxCalls

\* the Arduino stubs: digital I/O, delay, clock and console
Next ==
    \/ OnStubs(StubBudget, reset_arduino_stubs)
    \/ OnStubs(StubBudget, Serial_reset)
    \/ \E pin \in Pins, value \in Levels :
           OnStubs(StubBudget, digitalWrite(pin, value))
    \/ \E pin \in Pins :
           OnStubs(StubBudget, digitalRead(pin))
    \/ \E pin \in Pins, mode \in Modes :
           OnStubs(StubBudget, pinMode(pin, mode))
    \/ \E ms \in DelayArgs :
           OnStubs(StubBudget, delay(ms))
    \/ OnStubs(StubBudget, millis)
    \/ \E baud \in Bauds :
           OnStubs(StubBudget, Serial_begin(baud))
    \/ \E str \in Texts :
           OnStubs(StubBudget, Serial_print_cstr(str))
    \/ \E str \in Texts :
           OnStubs(StubBudget, Serial_println_cstr(str))
    \/ \E val \in IntArgs :
           OnStubs(StubBudget, Serial_print_int(val))
    \/ \E val \in IntArgs :
           OnStubs(StubBudget, Serial_println_int(val))
    \/ \E str \in Texts :
           OnStubs(StubBudget, Serial_print_String(str))
    \/ \E str \in Texts :
           OnStubs(StubBudget, Serial_println_String(str))
    \/ ClockTick

Spec == Init /\ [][Next]_vars

\* the budget of calls on the HTTP clients
HttpBudget == calls < MaxHttpCalls

\* the network clients: the HTTPClient of Arduino_stubs.cpp, the
\* HTTPClient of HTTPClient.cpp and the MockHTTPClient
NextHttp ==
    \/ \E code \in Codes :
           OnHttp(HttpBudget, Set_GET_return(code))
    \/ \E body \in Bodies :
           OnHttp(HttpBudget, Set_getString_return(body))
    \/ \E ms \in Timeouts :
           OnHttp(HttpBudget, HTTPClient_setTimeout(ms))
    \/ \E url \in Urls :
           OnHttp(HttpBudget, HTTPClient_begin(url))
    \/ OnHttp(HttpBudget, HTTPClient_GET)
    \/ OnHttp(HttpBudget, HTTPClient_getString)
    \/ OnHttp(HttpBudget, HTTPClient_end)
    \/ OnHttp(HttpBudget, HTTPClient_reset)
    \/ \E code \in Codes :
           OnHttp(HttpBudget, Set_HTTPClient_mock_response_code(code))
    \/ \E body \in Bodies :
           OnHttp(HttpBudget, Set_HTTPClient_mock_response_body(body))
    \/ \E ms \in Timeouts :
           OnHttp(HttpBudget, HTTPClientCpp_setTimeout(ms))
    \/ \E url \in Urls :
           OnHttp(HttpBudget, HTTPClientCpp_begin(url))
    \/ OnHttp(HttpBudget, HTTPClientCpp_GET)
    \/ OnHttp(HttpBudget, HTTPClientCpp_getString)
    \/ OnHttp(HttpBudget, HTTPClientCpp_end)
    \/ \E code \in Codes :
           OnHttp(HttpBudget, MockHTTPClient_setResponseCode(code))
    \/ \E str \in Bodies :
           OnHttp(HttpBudget, MockHTTPClient_setResponseString(str))
    \/ OnHttp(HttpBudget, MockHTTPClient_GET)
    \/ OnHttp(HttpBudget, MockHTTPClient_getString)
    \/ \E url \in Urls :
           OnHttp(HttpBudget, MockHTTPClient_begin(url))
    \/ \E timeout \in Timeouts :
           OnHttp(HttpBudget, MockHTTPClient_setTimeout(timeout))
    \/ OnHttp(HttpBudget, MockHTTPClient_end)

SpecHttp == Init /\ [][NextHttp]_vars

\* the cap of the counter of File::available
FileBudget == count < MaxCount

\* the filesystem mock
NextFile ==
    \/ \E format \in BOOLEAN :
           OnFile(FileBudget, SPIFFS_begin_format(format))
    \/ OnFile(FileBudget, SPIFFS_begin)
    \/ \E path \in Paths, mode \in FileModes :
           OnFile(FileBudget, SPIFFS_open(path, mode))
    \/ \E h \in DOMAIN handles :
           OnFile(FileBudget, File_available(h))
    \/ \E h \in DOMAIN handles :
           OnFile(FileBudget, File_read(h))
    \/ \E h \in DOMAIN handles :
           OnFile(FileBudget, File_close(h))
    \/ \E h \in DOMAIN handles :
           OnFile(FileBudget, File_bool(h))
    \/ \E h \in DOMAIN handles, terminator \in Terminators :
           OnFile(FileBudget, File_readStringUntil(h, terminator))
    \/ \E h \in DOMAIN handles, str \in Texts :
           OnFile(FileBudget, File_print(h, str))

SpecFile == Init /\ [][NextFile]_vars

\* the test registry and runner
NextRunner ==
    \/ \E name \in TestNames, kind \in TestKinds, body \in BodyKinds :
           OnRunner(register_test(name, kind, body))
    \/ OnRunner(RUN_ALL_TESTS)
    \/ OnRunner(RunLoop)
    \/ OnRunner(SetUp)
    \/ OnRunner(TestBody)
    \/ OnRunner(TearDown)

SpecRunner == InitRunner /\ [][NextRunner]_vars

\* the budget of the calls that change a model
ModelBudget == calls + count + Len(handles) < MaxModelCalls

\* every model of Arduino_stubs.cpp: the stubs, the HTTP client, the filesystem
NextModels ==
    \/ OnStubs(ModelBudget, reset_arduino_stubs)
    \/ OnStubs(ModelBudget, Serial_reset)
    \/ \E pin \in Pins, value \in Levels :
           OnStubs(ModelBudget, digitalWrite(pin, value))
    \/ \E pin \in Pins :
           OnStubs(ModelBudget, digitalRead(pin))
    \/ \E pin \in Pins, mode \in Modes :
           OnStubs(ModelBudget, pinMode(pin, mode))
    \/ \E ms \in DelayArgs :
           OnStubs(ModelBudget, delay(ms))
    \/ OnStubs(ModelBudget, millis)
    \/ \E baud \in Bauds :
           OnStubs(ModelBudget, Serial_begin(baud))
    \/ \E str \in Texts :
           OnStubs(ModelBudget, Serial_print_cstr(str))
    \/ \E str \in Texts :
           OnStubs(ModelBudget, Serial_println_cstr(str))
    \/ \E val \in IntArgs :
           OnStubs(ModelBudget, Serial_print_int(val))
    \/ \E val \in IntArgs :
           OnStubs(ModelBudget, Serial_println_int(val))
    \/ \E str \in Texts :
           OnStubs(ModelBudget, Serial_print_String(str))
    \/ \E str \in Texts :
           OnStubs(ModelBudget, Serial_println_String(str))
    \/ ClockTick
    \/ \E code \in Codes :
           OnHttp(ModelBudget, Set_GET_return(code))
    \/ \E body \in Bodies :
           OnHttp(ModelBudget, Set_getString_return(body))
    \/ \E ms \in Timeouts :
           OnHttp(ModelBudget, HTTPClient_setTimeout(ms))
    \/ \E url \in Urls :
           OnHttp(ModelBudget, HTTPClient_begin(url))
    \/ OnHttp(ModelBudget, HTTPClient_GET)
    \/ OnHttp(ModelBudget, HTTPClient_getString)
    \/ OnHttp(ModelBudget, HTTPClient_end)
    \/ OnHttp(ModelBudget, HTTPClient_reset)
    \/ \E format \in BOOLEAN :
           OnFile(ModelBudget, SPIFFS_begin_format(format))
    \/ OnFile(ModelBudget, SPIFFS_begin)
    \/ \E path \in Paths, mode \in FileModes :
           OnFile(ModelBudget, SPIFFS_open(path, mode))
    \/ \E h \in DOMAIN handles :
           OnFile(ModelBudget, File_available(h))
    \/ \E h \in DOMAIN handles :
           OnFile(ModelBudget, File_read(h))
    \/ \E h \in DOMAIN handles :
           OnFile(ModelBudget, File_close(h))
    \/ \E h \in DOMAIN handles :
           OnFile(ModelBudget, File_bool(h))
    \/ \E h \in DOMAIN handles, terminator \in Terminators :
           OnFile(ModelBudget, File_readStringUntil(h, terminator))
    \/ \E h \in DOMAIN handles, str \in Texts :
           OnFile(ModelBudget, File_print(h, str))

SpecModels == Init /\ [][NextModels]_vars

\* the file stub, with resets of the Arduino stubs in between
NextFileReset ==
    \/ NextFile
    \/ OnStubs(ResetBudget, reset_arduino_stubs)
    \/ OnStubs(ResetBudget, Serial_reset)

SpecFileReset == Init /\ [][NextFileReset]_vars

\* the String value type
NextString ==
    \/ StringBudget /\ \E content \in Contents, start \in Indexes, end \in Indexes :
               OnString(String_substring(content, start, end))
    \/ StringBudget /\ \E content \in Contents, str \in CNeedles, fromIndex \in Indexes :
               OnString(String_indexOf_cstr(content, str, fromIndex))
    \/ StringBudget /\ \E content \in Contents, ch \in Chars, fromIndex \in Indexes :
               OnString(String_indexOf_char(content, ch, fromIndex))
    \/ StringBudget /\ \E content \in Contents, str \in StringNeedles, fromIndex \in Indexes :
               OnString(String_indexOf_String(content, str, fromIndex))

SpecString == Init /\ [][NextString]_vars

\* ================================================================ claims

Range(f) == {f[i] : i \in DOMAIN f}

\* the value last written to pin p in the history h of writes, 0 if none
RECURSIVE LastWritten(_, _)
LastWritten(h, p) ==
    IF h = <<>> THEN 0
    ELSE IF h[Len(h)][1] = p THEN h[Len(h)][2]
    ELSE LastWritten(SubSeq(h, 1, Len(h) - 1), p)

\* C1: digitalRead(pin) returns 0 for a pin not written since the last
\* reset, and otherwise the value of the most recent digitalWrite to that
\* pin since the last reset.
C1_ReadsLastWrite ==
    /\ \A p \in Pins : PinLookup(p) = LastWritten(writes_since_reset, p)
    /\ last.op = "digitalRead" =>
           last.ret = <<LastWritten(writes_since_reset, last.args[1])>>

\* a read of pin 13 returns 1 after the writes 0 then 1 to it
C1_Witness ==
    /\ last.op = "digitalRead"
    /\ last.args = <<13>>
    /\ last.ret = <<1>>
    /\ writes_since_reset = << <<13, 0>>, <<13, 1>> >>

\* the log entries of a history of writes
WriteLogOf(h) == [i \in 1..Len(h) |-> [pin |-> h[i][1], value |-> h[i][2]]]

\* what one call does to the write log
C2_WriteLogStep ==
    IF calls' = calls + 1 /\ last'.op = "digitalWrite"
    THEN mock_digitalWrite_calls' =
             Append(mock_digitalWrite_calls,
                    [pin |-> last'.args[1], value |-> last'.args[2]])
    ELSE IF calls' = calls + 1 /\ last'.op = "reset_arduino_stubs"
    THEN mock_digitalWrite_calls' = <<>>
    ELSE mock_digitalWrite_calls' = mock_digitalWrite_calls

\* C2: the write log holds exactly one {pin, value} entry per digitalWrite
\* call since the last reset, in call order; reset empties it; no other
\* operation adds, removes or reorders entries.
C2_WriteLog ==
    /\ [](mock_digitalWrite_calls = WriteLogOf(writes_since_reset))
    /\ [][C2_WriteLogStep]_vars

\* two different writes are logged in call order, and a console call
\* made after them left the log alone
C2_Witness ==
    /\ last.op = "Serial.println"
    /\ mock_digitalWrite_calls =
           <<[pin |-> 13, value |-> 1], [pin |-> 2, value |-> 0]>>

\* what the stream of the filesystem still delivers
FileRemaining == IF count < StreamLength THEN StreamLength - count ELSE 0

\* C3: once the resets have been invoked, every model behaves as at
\* process start (clock readings aside): no state of a prior test leaks.
C3_ResetRestoresStart ==
    last.resets = ResetOps =>
        /\ \A p \in Pins : PinLookup(p) = 0
        /\ mock_digitalWrite_calls = <<>>
        /\ mock_delay_calls = <<>>
        /\ SerialInit
        /\ GET_value = 200
        /\ getString_value = <<>>
        /\ http_begin_call_count = 0
        /\ begin_url = <<>>
        /\ FileRemaining = StreamLength

\* the functions entered and the lines reported by the current run
RunEvents == SubSeq(events, run_start.events + 1, Len(events))
RunReport == SubSeq(report, run_start.report + 1, Len(report))

\* the tests whose body the current run entered, in the order of entry
BodiesInvoked ==
    LET entered == SelectSeq(RunEvents, LAMBDA e : e[2] = "TestBody")
    IN [i \in 1..Len(entered) |-> entered[i][1]]

\* C4: run_all_tests invokes every registered body exactly once, in
\* registration order, then returns the number of bodies that signaled a
\* failed assertion.
C4_RunsAllAndCounts ==
    /\ pc # "aborted"
    /\ pc = "returned" =>
           /\ BodiesInvoked = [i \in 1..end_ |-> i]
           /\ returned[Len(returned)] =
                  Cardinality({i \in 1..end_ : tests_[i].body = "assert"})

\* C5: a failing assertion aborts only its test body: that test is
\* reported Failed, the tests after it are still run and reported, and
\* run_all_tests still returns.
C5_FailureIsLocal ==
    /\ \A i \in 1..end_ :
           (<<i, "TestBody">> \in Range(RunEvents) /\ tests_[i].body = "assert") =>
               /\ pc # "aborted"
               /\ idx > i => RunReport[i][1] = "FAIL"
    /\ pc = "returned" => Len(RunReport) = end_

\* C6: whenever SetUp has run for a fixture test, TearDown has run for it
\* by the time the next test starts or the run ends, also when the body
\* signals a failure.
C6_TearDownAlwaysRuns ==
    \A i \in 1..end_ :
        (/\ <<i, "SetUp">> \in Range(RunEvents)
         /\ idx > i \/ pc \in {"returned", "aborted"}) =>
            <<i, "TearDown">> \in Range(RunEvents)

\* C7 as stated: GET() returns the response code last configured and
\* getString() the response body last configured, whatever was called in
\* between; after reset() they yield 200 and "".
C7_ConfiguredResponse ==
    /\ last.op = "HTTPClient.GET" => last.ret = <<configured["stub"].code>>
    /\ last.op = "HTTPClient.getString" => last.ret = <<configured["stub"].body>>
    /\ last.op = "HTTPClient.cpp GET" => last.ret = <<configured["static"].code>>
    /\ last.op = "HTTPClient.cpp getString" =>
           last.ret = <<configured["static"].body>>
    /\ last.op = "MockHTTPClient.GET" => last.ret = <<configured["mock"].code>>
    /\ last.op = "MockHTTPClient.getString" =>
           last.ret = <<configured["mock"].body>>
    /\ last.op = "HTTPClient.reset" => GET_value = 200 /\ getString_value = <<>>

\* the text before the first NUL of body, all of it when it holds none
UpToNUL(body) ==
    LET nuls == {i \in DOMAIN body : body[i] = "NUL"}
    IN IF nuls = {} THEN body
       ELSE SubSeq(body, 1, (CHOOSE i \in nuls : \A j \in nuls : i <= j) - 1)

\* C7: GET() returns the response code last configured, whatever was
\* called in between. getString() of the client of Arduino_stubs.cpp
\* returns the body last configured up to its first NUL, the whole body
\* when it holds none; getString() of the other two clients returns the
\* body as configured. After reset() the client yields 200 and "".
C7_ConfiguredUpToNUL ==
    /\ last.op = "HTTPClient.GET" => last.ret = <<configured["stub"].code>>
    /\ last.op = "HTTPClient.getString" =>
           last.ret = <<UpToNUL(configured["stub"].body)>>
    /\ last.op = "HTTPClient.cpp GET" => last.ret = <<configured["static"].code>>
    /\ last.op = "HTTPClient.cpp getString" =>
           last.ret = <<configured["static"].body>>
    /\ last.op = "MockHTTPClient.GET" => last.ret = <<configured["mock"].code>>
    /\ last.op = "MockHTTPClient.getString" =>
           last.ret = <<configured["mock"].body>>
    /\ last.op = "HTTPClient.reset" =>
           /\ GET_value = 200 /\ getString_value = <<>>
           /\ configured["stub"] = [code |-> 200, body |-> <<>>]

\* 404 and "not found" are configured, begin is called, and getString
\* returns "not found" while GET would return 404
C7_Witness ==
    /\ last.op = "HTTPClient.getString"
    /\ last.ret = <<NotFound>>
    /\ GET_value = 404
    /\ http_begin_call_count = 1

\* a body with a NUL is configured and getString returns the text
\* before the NUL
C7_WitnessNUL ==
    /\ last.op = "HTTPClient.getString"
    /\ \E i \in DOMAIN configured["stub"].body : configured["stub"].body[i] = "NUL"
    /\ last.ret = <<UpToNUL(getString_return)>>
    /\ Len(last.ret[1]) < Len(getString_return)
    /\ last.ret[1] # <<>>

\* C8: every handle returned by SPIFFS.open reports available() == true
\* for exactly its first 10 calls and false after, however many handles
\* were opened or read before it.
C8_EveryHandleFresh ==
    \A h \in DOMAIN handles :
        \A k \in DOMAIN handles[h].obs :
            handles[h].obs[k] = (k <= StreamLength)

\* the output of a history of console calls: the fragments in order, each
\* println fragment followed by a line terminator
RECURSIVE Transcript(_)
Transcript(h) ==
    IF h = <<>> THEN <<>>
    ELSE Transcript(SubSeq(h, 1, Len(h) - 1)) \o h[Len(h)][2]
             \o (IF h[Len(h)][1] = "println" THEN <<"\n">> ELSE <<>>)

\* the fragments of one operation in a history of console calls
FragmentsOf(h, op) ==
    LET sel == SelectSeq(h, LAMBDA e : e[1] = op)
    IN [i \in 1..Len(sel) |-> sel[i][2]]

\* C9: every print/println call, in each form, appends the rendered text
\* to the log of its operation and to the output buffer, println also a
\* line terminator to the buffer: the buffer is the concatenation of all
\* fragments in call order.
C9_BufferMirrorsCalls ==
    /\ print_calls = FragmentsOf(console_since_reset, "print")
    /\ println_calls = FragmentsOf(console_since_reset, "println")
    /\ outputBuffer = Transcript(console_since_reset)

\* the unsigned long u has the value of the int n
ULongEquals(u, n) ==
    /\ n >= 0
    /\ u[3] = 0 /\ u[4] = 0 /\ u[2] < 32768
    /\ u[1] + 65536 * u[2] = n

\* the unsigned long u has the value 2^64 + n, for an int n < 0
ULongWraps(u, n) ==
    /\ n < 0
    /\ u[3] = 65535 /\ u[4] = 65535 /\ u[2] >= 32768
    /\ (65535 - u[1]) + 65536 * (65535 - u[2]) = (0 - n) - 1

\* C10 as stated: the delay log has one entry per delay call since the
\* last reset, in call order, and the value recorded equals the ms
\* requested.
C10_RecordsRequested ==
    /\ Len(mock_delay_calls) = Len(delays_since_reset)
    /\ \A i \in DOMAIN mock_delay_calls :
           ULongEquals(mock_delay_calls[i].ms, delays_since_reset[i])

\* what one call does to the delay log, and what delay leaves alone
C10_DelayStep ==
    IF calls' = calls + 1 /\ last'.op = "delay"
    THEN /\ Len(mock_delay_calls') = Len(mock_delay_calls) + 1
         /\ SubSeq(mock_delay_calls', 1, Len(mock_delay_calls)) = mock_delay_calls
         /\ UNCHANGED <<pin_states, mock_digitalWrite_calls, serialVars,
                        start_time>>
    ELSE IF calls' = calls + 1 /\ last'.op = "reset_arduino_stubs"
    THEN mock_delay_calls' = <<>>
    ELSE mock_delay_calls' = mock_delay_calls

\* C10 (amended): delay(ms) only appends one entry to the delay log; the
\* value recorded is (unsigned long)ms, which is ms for ms >= 0 and
\* 2^64 + ms for ms < 0; the log has one entry per delay call since the
\* last reset, in call order; the pin table, the write log, the console
\* and the clock's reference instant are left unchanged.
C10_DelayLog ==
    /\ [](/\ Len(mock_delay_calls) = Len(delays_since_reset)
          /\ \A i \in DOMAIN mock_delay_calls :
                 \/ ULongEquals(mock_delay_calls[i].ms, delays_since_reset[i])
                 \/ ULongWraps(mock_delay_calls[i].ms, delays_since_reset[i]))
    /\ [][C10_DelayStep]_vars

\* delay(250) then delay(-1) after a write: two entries in call order,
\* the second one 2^64 - 1
C10_Witness ==
    /\ last.op = "delay"
    /\ last.args = <<-1>>
    /\ pin_states # <<>>
    /\ mock_delay_calls =
           <<[ms |-> <<250, 0, 0, 0>>], [ms |-> <<65535, 65535, 65535, 65535>>]>>

\* start clamped to >= 0
ClampStart(start) == IF start < 0 THEN 0 ELSE start

\* end clamped to <= length, -1 meaning "to the end"
ClampEnd(content, end) ==
    IF end = 0 - 1 \/ end > Len(content) THEN Len(content) ELSE end

\* the characters of content at the positions from (included) to to
\* (excluded), counted from 0
Slice(content, from, to) == [i \in 1..(to - from) |-> content[from + i]]

\* p is content, or content cut before a character
IsPrefix(p, content) ==
    /\ Len(p) <= Len(content)
    /\ \A i \in 1..Len(p) : p[i] = content[i]

\* C11: for every text and every integers start and end, substring
\* returns the contiguous slice from clamp(start) up to clamp(end), of
\* length max(0, clamp(end) - clamp(start)) at most: the empty text for
\* an empty or inverted clamped range, the whole slice when it holds no
\* NUL, and the slice cut at its first NUL otherwise.
C11_SubstringIsClampedSlice ==
    last.op = "String.substring" =>
        LET content == last.args[1]
            from == ClampStart(last.args[2])
            to == ClampEnd(content, last.args[3])
            out == last.ret[1]
        IN IF from >= to THEN out = <<>>
           ELSE /\ Len(out) <= to - from
                /\ IsPrefix(out, Slice(content, from, to))
                /\ Len(out) < to - from => Slice(content, from, to)[Len(out) + 1] = NUL
                /\ \A i \in 1..Len(out) : out[i] # NUL

\* substring(-2, -1) of "aba": start is clamped to 0, end means "to the
\* end", and the whole text is returned
C11_Witness ==
    /\ last.op = "String.substring"
    /\ last.args = << <<"a", "b", "a">>, 0 - 2, 0 - 1 >>
    /\ last.ret = << <<"a", "b", "a">> >>

\* the positions p >= fromIndex at which needle occurs in content
Occurrences(content, needle, fromIndex) ==
    {p \in 0..(Len(content) - Len(needle)) :
        /\ p >= fromIndex
        /\ SubSeq(content, p + 1, p + Len(needle)) = needle}

\* C12: for every fromIndex, negative and beyond the length included,
\* indexOf(needle, fromIndex) returns the smallest position p >= fromIndex
\* at which needle occurs, and -1 exactly when there is none.
C12_IndexOfFromAnyIndex ==
    last.op = "String.indexOf" =>
        LET occ == Occurrences(last.args[1], last.args[2], last.args[3])
        IN IF occ = {} THEN last.ret[1] = 0 - 1
           ELSE /\ last.ret[1] \in occ
                /\ \A q \in occ : last.ret[1] <= q

\* the step is a call of reset_arduino_stubs
ResetStep == calls' = calls + 1 /\ last'.op = "reset_arduino_stubs"

\* the step is a call of millis
MillisStep == calls' = calls + 1 /\ last'.op = "millis"

\* what a step does to the reference instant and to the elapsed time
C13_MillisStep ==
    /\ ResetStep => start_time' = now /\ MillisValue' = 0
    /\ ~ResetStep => start_time' = start_time /\ MillisValue' >= MillisValue
    /\ MillisStep => last'.ret = <<MillisValue>> /\ now' = now

\* C13: millis() returns the time elapsed since the most recent reset
\* (or since process start): 0 at the instant of a reset, non-decreasing
\* while no reset happens, and only a reset moves the reference
\* instant; delay and every other operation leave it unchanged.
C13_MillisSinceReset ==
    /\ MillisValue >= 0
    /\ [][C13_MillisStep]_vars

\* time has passed, a reset has rebased the clock, and millis() called
\* at that instant has returned 0
C13_Witness ==
    /\ last.op = "millis"
    /\ last.ret = <<0>>
    /\ start_time > 0
    /\ now \div TicksPerMs > 0

\* the positions of the entries of the digitalWrite log for the pin
LogEntriesOf(pin) ==
    {i \in 1..Len(mock_digitalWrite_calls) : mock_digitalWrite_calls[i].pin = pin}

\* the value of the last entry of the digitalWrite log for the pin
LastLogged(pin) ==
    mock_digitalWrite_calls[CHOOSE i \in LogEntriesOf(pin) :
                                \A j \in LogEntriesOf(pin) : j <= i].value

\* what digitalRead(pin) would return agrees with the log
C14_ViewsAgree ==
    \A pin \in Pins :
        PinLookup(pin) = IF LogEntriesOf(pin) = {} THEN 0 ELSE LastLogged(pin)

\* a reset clears the log and the table in the same step
C14_ResetClearsBoth ==
    ResetStep => mock_digitalWrite_calls' = <<>> /\ DOMAIN pin_states' = {}

TablePins == DOMAIN pin_states

\* what a step does to the set of entries of the pin table
C15_TableStep ==
    /\ ResetStep => TablePins' = {}
    /\ ~(TablePins' \subseteq TablePins) =>
           calls' = calls + 1 /\ last'.op = "digitalWrite"
    /\ calls' = calls + 1 /\ last'.op \in {"digitalRead", "pinMode"} =>
           TablePins' = TablePins

\* C15: the pin table is empty after start and after a reset and gains
\* an entry only by digitalWrite; digitalRead, of a pin never written
\* included, and pinMode leave the set of its entries unchanged.
C15_OnlyWritesAddEntries ==
    /\ calls = 0 => TablePins = {}
    /\ [][C15_TableStep]_vars

\* the step is a call of the operation
CallOf(op) == calls' = calls + 1 /\ last'.op = op

\* what a step does to the begin-counter and to the recorded target
C16_BeginStep ==
    /\ CallOf("HTTPClient.begin") =>
           /\ http_begin_call_count' = http_begin_call_count + 1
           /\ begin_url' = last'.args[1]
    /\ CallOf("HTTPClient.reset") => http_begin_call_count' = 0
    /\ ~(CallOf("HTTPClient.begin") \/ CallOf("HTTPClient.reset")) =>
           UNCHANGED <<http_begin_call_count, begin_url>>
    /\ CallOf("HTTPClient.cpp begin") => last_url' = last'.args[1]
    /\ ~CallOf("HTTPClient.cpp begin") => UNCHANGED last_url

\* C16: every begin(url) of the network client records url as the last
\* requested target and adds one to the begin-counter; setTimeout, GET,
\* getString and end change neither, and reset zeroes the counter, so
\* that the counter is the number of begin calls since the reset.
C16_BeginCounted ==
    /\ http_begin_call_count \in 0..calls
    /\ http_begin_call_count = 0 => begin_url = <<>>
    /\ [][C16_BeginStep]_vars

\* two begins, the second with the same url as the first, then an end:
\* the counter is 2 and the target is the url
C16_Witness ==
    /\ last.op = "HTTPClient.end"
    /\ http_begin_call_count = 2
    /\ begin_url \in Urls
    /\ calls = 3

\* the step is a call of readStringUntil: the only operation recorded
\* under that name, and it always moves the counter
ReadStringUntilStep == last'.op = "File.readStringUntil" /\ count' > count

\* the results of available() that handle h observes in the step
NewObs(h) ==
    SubSeq(handles'[h].obs, Len(handles[h].obs) + 1, Len(handles'[h].obs))

\* n filler bytes
Filler(n) == [i \in 1..n |-> "a"]

\* what a call of readStringUntil returns and consumes
C17_ReadStep ==
    ReadStringUntilStep =>
        LET h == last'.args[1]
            terminator == last'.args[2]
            obs == NewObs(h)
            trues == {i \in 1..Len(obs) : obs[i]}
            out == last'.ret[1]
        IN /\ count' = count + Len(obs)
           /\ \A i \in 1..Len(obs) : ~obs[i] => i = Len(obs)
           /\ terminator # "a" =>
                  /\ out = Filler(Cardinality(trues))
                  /\ ~AvailableValue(count')
           /\ terminator # "a" /\ count = 0 => out = Filler(StreamLength)
           /\ terminator = "a" => out = <<>> /\ count' = count + 1

\* C17: readStringUntil(terminator) returns for every terminator and
\* every state of the stream, and what it returns depends on available()
\* and read() only: with a terminator other than 'a', one filler byte
\* 'a' per true result of available(), which on a fresh stream is
\* exactly 10 bytes and leaves available() false; with the terminator
\* 'a', the empty text after exactly one unit of the stream is consumed.
C17_ReadStringUntil == [][C17_ReadStep]_vars

\* the first read of the process, with a terminator other than 'a', has
\* returned the 10 filler bytes and consumed 11 units
C17_Witness ==
    /\ last.op = "File.readStringUntil"
    /\ last.args[2] # "a"
    /\ last.ret = <<Filler(StreamLength)>>
    /\ count = StreamLength + 1

\* C18: the catalog never holds two entries with the same qualified
\* name: registering a name already present is rejected and leaves the
\* catalog unchanged, so no two bodies run under one name.
C18_NamesUnique ==
    \A i \in DOMAIN tests_ : \A j \in DOMAIN tests_ :
        tests_[i].name = tests_[j].name => i = j

\* C19: the console counters mirror the logs: print_call_count is the
\* number of entries of print_calls and println_call_count that of
\* println_calls, each the number of print / println calls of any form
\* since the last reset; begin_baud and last_baud_rate are both the
\* baud of the latest begin, 0 when there was none since the reset.
C19_CountersMirrorLogs ==
    /\ print_call_count = Len(print_calls)
    /\ print_call_count = Len(FragmentsOf(console_since_reset, "print"))
    /\ println_call_count = Len(println_calls)
    /\ println_call_count = Len(FragmentsOf(console_since_reset, "println"))
    /\ begin_baud = last_baud_rate
    /\ begin_call_count = 0 => begin_baud = 0

\* the results of available() observed by the handles from h on, one
\* handle after the other
RECURSIVE ObsFrom(_)
ObsFrom(h) ==
    IF h > Len(handles) THEN <<>> ELSE handles[h].obs \o ObsFrom(h + 1)

\* all results of available() observed since process start
AllObs == ObsFrom(1)

\* how many of them were true
TrueObs == Cardinality({i \in DOMAIN AllObs : AllObs[i]})

\* the counter is never moved back, and false is final
C20_CounterStep ==
    /\ count' >= count
    /\ ~AvailableValue(count) => ~AvailableValue(count')

====
